---- MODULE Spec2Model ----
(***************************************************************************)
(* Iteration orchestration of the scriptwriting server.                    *)
(*                                                                         *)
(* Two orchestration variants live in the repository:                      *)
(*  - the asynchronous one (src/unnamed/part_006 with the store of         *)
(*    src/server/lib/ai-service.ts lines 274-380): a request creates an    *)
(*    in_progress Iteration and a fire-and-forget task fills it in;        *)
(*  - the synchronous one (src/server/routes.ts with the store of          *)
(*    src/server/lib/ai-service.ts lines 147-235): a request waits for     *)
(*    the backend and stores a completed Iteration.                        *)
(* Every store method is async, so a handler can be suspended at each      *)
(* await; the model keeps the position of every handler in flight.         *)
(***************************************************************************)
EXTENDS Integers, Sequences, FiniteSets, Bags, TLC

\* ---------------------------------------------------------------- bounds
MaxRequests == 3           \* requests received in one behaviour
MaxReqs == 2               \* request handlers in flight at the same time
MaxPieces == 3             \* pieces of a script content given to exportScript
MaxSyncRequests == 4       \* requests the synchronous routes receive in one behaviour

\* ------------------------------------------------------ program constants
MinIterations == 2         \* createScriptSchema: iterations min
MaxIterations == 4         \* createScriptSchema: iterations max
TotalIterations == 4       \* sync store, createScript: totalIterations

\* the iteration counts clients ask for: below the range, in it, above it
RequestedIterations == {MinIterations - 1, MinIterations, MinIterations + 1,
                        MaxIterations + 1}

PlaceholderInitial == "Generating script..."
PlaceholderNext == "Generating next iteration..."
ErrorContent == "Error generating script content."

\* what a backend's generate call returns for the task of iteration id: the
\* text is the provider's, here one distinct draft per task
Draft(id) == "draft " \o ToString(id)
\* the bodies a client sends to the manual edit endpoint (non-empty)
EditContents == {"edit X", "edit Y"}

\* metrics: null until the task completes; of a filled bundle the model keeps
\* whether it carries a redundancyReduction and which
NullMetrics == [kind |-> "null"]
\* metrics without a redundancyReduction key
NoRedundancy == -1
\* what compareScripts can report: the provider's percentage or the fallback
RedundancyReductions == {0, 25}
NoResponse == [route |-> "none"]
\* exportScript has not been called
NoDocument == [format |-> "none"]
NoGeneration == [pc |-> "none"]
\* no store method has been called on its own
NoStoreCall == [op |-> "none", n |-> 0]

VARIABLES
  scripts,            \* async store: Map<number, Script>
  scriptIterations,   \* async store: Map<number, ScriptIteration>
  scriptId,           \* async store: next Script id
  iterationId,        \* async store: next ScriptIteration id
  reqs,               \* bag of request handlers suspended at an await
  tasks,              \* running generateScriptContent tasks, by iteration id
  response,           \* the HTTP response sent by the last step, if any
  received,           \* number of requests received so far
  syncScripts,        \* sync store: Map<number, Script> (scripts)
  iterations,         \* sync store: Map<number, Iteration>
  scriptCurrentId,    \* sync store: next Script id
  iterationCurrentId, \* sync store: next Iteration id
  exportScriptInput,  \* exportScript: the script content it is called with
  exportScriptOutput, \* exportScript: format, settings and document of a call
  generation,         \* one generateScriptContent run, its backends in detail
  storeCall           \* the last call of a store method and what it returned

asyncStore == <<scripts, scriptIterations, scriptId, iterationId>>
syncStore == <<syncScripts, iterations, scriptCurrentId, iterationCurrentId>>

callVars == <<exportScriptInput, exportScriptOutput, generation, storeCall>>

vars == <<scripts, scriptIterations, scriptId, iterationId, reqs, tasks, response,
          received, syncScripts, iterations, scriptCurrentId, iterationCurrentId,
          exportScriptInput, exportScriptOutput, generation, storeCall>>

\* ------------------------------------------------------------ the store

\* the ids of the Iteration records of script s
IterationIdsOf(its, s) == {i \in DOMAIN its : its[i].scriptId = s}

\* Array.prototype.sort is stable and Map iterates in insertion (id) order
Before(a, b) ==
  \/ a.iterationNumber < b.iterationNumber
  \/ a.iterationNumber = b.iterationNumber /\ a.id < b.id

RECURSIVE SortByNumber(_)
SortByNumber(S) ==
  IF S = {} THEN <<>>
  ELSE LET first == CHOOSE a \in S : \A b \in S \ {a} : Before(a, b)
       IN <<first>> \o SortByNumber(S \ {first})

getScriptIterations(its, s) ==
  SortByNumber({its[i] : i \in IterationIdsOf(its, s)})

\* new Date() in createScriptIteration: the clock of the model counts the
\* Iteration records created so far, so later records carry later times
Now == iterationId - 1

\* { ...insertIteration, id, createdAt: new Date() }
createScriptIteration(its, id, insertIteration) ==
  [i \in DOMAIN its \cup {id} |->
     IF i = id
     THEN [id |-> id,
           scriptId |-> insertIteration.scriptId,
           iterationNumber |-> insertIteration.iterationNumber,
           content |-> insertIteration.content,
           status |-> insertIteration.status,
           metrics |-> insertIteration.metrics,
           createdAt |-> Now]
     ELSE its[i]]

updateScriptIterationContentOnly(its, id, iterationUpdate) ==
  IF id \notin DOMAIN its THEN its
  ELSE [its EXCEPT ![id] =
          [f \in DOMAIN its[id] |->
             IF f \in DOMAIN iterationUpdate /\ f = "content"
             THEN iterationUpdate[f] ELSE its[id][f]]]

updateScriptIterationResetting(its, id, iterationUpdate) ==
  IF id \notin DOMAIN its THEN its
  ELSE [its EXCEPT ![id] =
          [f \in DOMAIN its[id] |->
             IF f \in DOMAIN iterationUpdate THEN iterationUpdate[f]
             ELSE IF f = "metrics" THEN NullMetrics
             ELSE its[id][f]]]

\* { ...iteration, ...iterationUpdate }: the provided fields replace the
\* record's, every other field is kept; an unknown id changes nothing
updateScriptIteration(its, id, iterationUpdate) ==
  IF id \notin DOMAIN its THEN its
  ELSE [its EXCEPT ![id] =
          [f \in DOMAIN its[id] |->
             IF f \in DOMAIN iterationUpdate THEN iterationUpdate[f] ELSE its[id][f]]]

\* ------------------------------------------------------------ responses
Respond(route, sid, status, body) ==
  [route |-> route, sid |-> sid, status |-> status, body |-> body]

NoBody == [id |-> 0]

\* a request is taken off the network
Receive == received < MaxRequests /\ received' = received + 1

\* the same for the synchronous routes
SyncReceive == received < MaxSyncRequests /\ received' = received + 1

\* ------------------------------------------------- POST /api/scripts

\* createScriptSchema.parse: iterations is a number in 2..4
ValidScript(n) == n >= MinIterations /\ n <= MaxIterations

\* the handler up to its first await: validation and storage.createScript
PostScripts(n) ==
  /\ UNCHANGED syncStore
  /\ UNCHANGED callVars
  /\ BagCardinality(reqs) < MaxReqs
  /\ Receive
  /\ IF ~ValidScript(n)
     THEN /\ response' = Respond("POST /api/scripts", 0, 400, NoBody)
          /\ UNCHANGED <<scripts, scriptId, reqs>>
     ELSE /\ LET script == [id |-> scriptId, iterations |-> n]
             IN /\ scripts' = [i \in DOMAIN scripts \cup {scriptId} |->
                                 IF i = scriptId THEN script ELSE scripts[i]]
                /\ reqs' = reqs (+) SetToBag({[kind |-> "create",
                                               pc |-> "startScriptGeneration",
                                               script |-> script]})
          /\ scriptId' = scriptId + 1
          /\ response' = NoResponse
  /\ UNCHANGED <<scriptIterations, iterationId, tasks>>

InProgressIterationAwaited(sid, iterationNumber, content) ==
  [scriptId |-> sid,
   iterationNumber |-> iterationNumber,
   content |-> content,
   status |-> "completed",
   metrics |-> NullMetrics]

\* the record both helpers hand to storage.createScriptIteration
InProgressIteration(sid, iterationNumber, content) ==
  [scriptId |-> sid,
   iterationNumber |-> iterationNumber,
   content |-> content,
   status |-> "in_progress",
   metrics |-> NullMetrics]

\* .map(it => it.content)
ContentsOf(iterationList) ==
  [k \in 1..Len(iterationList) |-> iterationList[k].content]

NewTaskUnfiltered(script, previousIterations) ==
  [script |-> script,
   pc |-> "generate",
   prevContents |-> ContentsOf(previousIterations),
   content |-> "",
   metrics |-> NullMetrics]

\* a task as generateScriptContent holds it at its first await
NewTask(script, previousIterations) ==
  [script |-> script,
   pc |-> "generate",
   prevContents |-> ContentsOf(SelectSeq(previousIterations,
                                         LAMBDA it : it.status = "completed")),
   content |-> "",
   metrics |-> NullMetrics]

SpawnTask(id, script, previousIterations) ==
  [i \in DOMAIN tasks \cup {id} |->
     IF i = id THEN NewTask(script, previousIterations) ELSE tasks[i]]

\* startScriptGeneration: iteration 1 is created in_progress, the task is
\* started and not awaited, the new record is the response
StartScriptGeneration(r) ==
  /\ UNCHANGED syncStore
  /\ UNCHANGED callVars
  /\ r \in BagToSet(reqs)
  /\ UNCHANGED received
  /\ r.kind = "create" /\ r.pc = "startScriptGeneration"
  /\ LET its == createScriptIteration(scriptIterations, iterationId,
                  InProgressIteration(r.script.id, 1, PlaceholderInitial))
         newIteration == its[iterationId]
     IN /\ scriptIterations' = its
        /\ tasks' = SpawnTask(newIteration.id, r.script, <<>>)
        /\ response' = Respond("POST /api/scripts", r.script.id, 201, newIteration)
  /\ iterationId' = iterationId + 1
  /\ reqs' = reqs (-) SetToBag({r})
  /\ UNCHANGED <<scripts, scriptId>>

\* ---------------------------------- POST /api/scripts/:id/iterations

NextIterationNumberSkipping(existingIterations) == Len(existingIterations) + 2

\* existingIterations.length + 1
NextIterationNumber(existingIterations) == Len(existingIterations) + 1

MaximumReachedLate(nextIterationNumber, script) ==
  nextIterationNumber > script.iterations + 1

\* nextIterationNumber > script.iterations
MaximumReached(nextIterationNumber, script) == nextIterationNumber > script.iterations

\* the handler up to its first await: storage.getScript
PostIterations(sid) ==
  /\ UNCHANGED syncStore
  /\ UNCHANGED callVars
  /\ BagCardinality(reqs) < MaxReqs
  /\ Receive
  /\ reqs' = reqs (+) SetToBag({[kind |-> "next", pc |-> "getScript", sid |-> sid]})
  /\ response' = NoResponse
  /\ UNCHANGED <<scripts, scriptIterations, scriptId, iterationId, tasks>>

\* storage.getScript has answered: 404 or on to storage.getScriptIterations
GetScript(r) ==
  /\ UNCHANGED syncStore
  /\ UNCHANGED callVars
  /\ r \in BagToSet(reqs)
  /\ UNCHANGED received
  /\ r.kind = "next" /\ r.pc = "getScript"
  /\ IF r.sid \notin DOMAIN scripts
     THEN /\ reqs' = reqs (-) SetToBag({r})
          /\ response' = Respond("POST /api/scripts/:id/iterations", r.sid, 404, NoBody)
     ELSE /\ reqs' = (reqs (-) SetToBag({r}))
                       (+) SetToBag({[kind |-> "next", pc |-> "getScriptIterations",
                                      sid |-> r.sid, script |-> scripts[r.sid]]})
          /\ response' = NoResponse
  /\ UNCHANGED <<scripts, scriptIterations, scriptId, iterationId, tasks>>

\* storage.getScriptIterations has answered: the cap check
GetScriptIterations(r) ==
  /\ UNCHANGED syncStore
  /\ UNCHANGED callVars
  /\ r \in BagToSet(reqs)
  /\ UNCHANGED received
  /\ r.kind = "next" /\ r.pc = "getScriptIterations"
  /\ LET existingIterations == getScriptIterations(scriptIterations, r.sid)
         nextIterationNumber == NextIterationNumber(existingIterations)
     IN IF MaximumReached(nextIterationNumber, r.script)
        THEN /\ reqs' = reqs (-) SetToBag({r})
             /\ response' = Respond("POST /api/scripts/:id/iterations", r.sid, 400, NoBody)
        ELSE /\ reqs' = (reqs (-) SetToBag({r}))
                          (+) SetToBag({[kind |-> "next", pc |-> "generateNextIteration",
                                         sid |-> r.sid, script |-> r.script,
                                         existingIterations |-> existingIterations]})
             /\ response' = NoResponse
  /\ UNCHANGED <<scripts, scriptIterations, scriptId, iterationId, tasks>>

\* generateNextIteration: the number comes from the list read before the
\* await, the record is created in_progress, the task is started and not
\* awaited, the new record is the response
GenerateNextIteration(r) ==
  /\ UNCHANGED syncStore
  /\ UNCHANGED callVars
  /\ r \in BagToSet(reqs)
  /\ UNCHANGED received
  /\ r.kind = "next" /\ r.pc = "generateNextIteration"
  /\ LET nextIterationNumber == NextIterationNumber(r.existingIterations)
         its == createScriptIteration(scriptIterations, iterationId,
                  InProgressIteration(r.script.id, nextIterationNumber, PlaceholderNext))
         newIteration == its[iterationId]
     IN /\ scriptIterations' = its
        /\ tasks' = SpawnTask(newIteration.id, r.script, r.existingIterations)
        /\ response' = Respond("POST /api/scripts/:id/iterations", r.sid, 201, newIteration)
  /\ iterationId' = iterationId + 1
  /\ reqs' = reqs (-) SetToBag({r})
  /\ UNCHANGED <<scripts, scriptId>>

\* ------------------------- PUT /api/scripts/:id/iterations/:iterationId

IterationNotFoundById(its, sid, iid) == iid \notin DOMAIN its

\* !iteration || iteration.scriptId !== scriptId
IterationNotFound(its, sid, iid) ==
  iid \notin DOMAIN its \/ its[iid].scriptId # sid

\* the response of the edit route, with the iteration id the request named
RespondPut(sid, iid, status, body) ==
  [route |-> "PUT /api/scripts/:id/iterations/:iterationId",
   sid |-> sid, iid |-> iid, status |-> status, body |-> body]

\* The handler reads only what no operation of this variant changes (the
\* script's existence, the iteration's existence and owner), so its three
\* awaits are taken in one step.
PutIteration(sid, iid, content) ==
  /\ UNCHANGED syncStore
  /\ UNCHANGED callVars
  /\ BagCardinality(reqs) < MaxReqs
  /\ Receive
  /\ IF sid \notin DOMAIN scripts
     THEN /\ response' = RespondPut(sid, iid, 404, NoBody)
          /\ UNCHANGED scriptIterations
     ELSE IF IterationNotFound(scriptIterations, sid, iid)
     THEN /\ response' = RespondPut(sid, iid, 404, NoBody)
          /\ UNCHANGED scriptIterations
     ELSE LET its == updateScriptIteration(scriptIterations, iid,
                        [content |-> content, status |-> "completed"])
          IN /\ scriptIterations' = its
             /\ response' = RespondPut(sid, iid, 200, its[iid])
  /\ UNCHANGED <<scripts, scriptId, iterationId, reqs, tasks>>

\* -------------------------------------- POST /api/scripts/:id/export

\* Math.max(...iterations.map(i => i.iterationNumber))
MaxIterationNumber(iterationList) ==
  CHOOSE m \in {iterationList[k].iterationNumber : k \in 1..Len(iterationList)} :
    \A k \in 1..Len(iterationList) : iterationList[k].iterationNumber <= m

\* iterations.sort((a, b) => b.iterationNumber - a.iterationNumber)[0] on the
\* ascending list: the highest number, the earliest record among equals
LatestIteration(iterationList) ==
  LET m == MaxIterationNumber(iterationList)
      k == CHOOSE k \in 1..Len(iterationList) :
             /\ iterationList[k].iterationNumber = m
             /\ \A j \in 1..(k - 1) : iterationList[j].iterationNumber # m
  IN iterationList[k]

CompletedIterationsUnfiltered(iterationList) == iterationList

\* .filter(it => it.status === 'completed')
CompletedIterations(iterationList) ==
  SelectSeq(iterationList, LAMBDA it : it.status = "completed")

\* what the handler hands to exportScript: the content of latestIteration
\* (the document made of it is ExportScript's matter)
ExportBody(latestIteration) ==
  [id |-> latestIteration.id, content |-> latestIteration.content]

\* The handler decides on the list storage.getScriptIterations returns and
\* answers without a further await.
PostExport(sid) ==
  /\ UNCHANGED syncStore
  /\ UNCHANGED callVars
  /\ BagCardinality(reqs) < MaxReqs
  /\ Receive
  /\ IF sid \notin DOMAIN scripts
     THEN response' = Respond("POST /api/scripts/:id/export", sid, 404, NoBody)
     ELSE LET iterationList == getScriptIterations(scriptIterations, sid)
              completed == CompletedIterations(iterationList)
          IN IF Len(iterationList) = 0
             THEN response' = Respond("POST /api/scripts/:id/export", sid, 400, NoBody)
             ELSE IF Len(completed) = 0
             THEN response' = Respond("POST /api/scripts/:id/export", sid, 400, NoBody)
             ELSE response' = Respond("POST /api/scripts/:id/export", sid, 200,
                                      ExportBody(LatestIteration(completed)))
  /\ UNCHANGED <<scripts, scriptIterations, scriptId, iterationId, reqs, tasks>>

\* ------------------------------------------------ generateScriptContent

EndTask(id) == [i \in DOMAIN tasks \ {id} |-> tasks[i]]

TaskFailedSilently(id) ==
  /\ scriptIterations' = scriptIterations
  /\ tasks' = EndTask(id)

TaskFailedWithSiblings(id) ==
  /\ scriptIterations' =
       [i \in DOMAIN scriptIterations |->
          IF scriptIterations[i].scriptId = scriptIterations[id].scriptId
          THEN updateScriptIteration(scriptIterations, i,
                 [content |-> ErrorContent, status |-> "failed"])[i]
          ELSE scriptIterations[i]]
  /\ tasks' = EndTask(id)

\* the catch block: the iteration becomes failed with the fixed content
TaskFailed(id) ==
  /\ scriptIterations' = updateScriptIteration(scriptIterations, id,
                           [content |-> ErrorContent, status |-> "failed"])
  /\ tasks' = EndTask(id)

\* the final update: content, status completed and the metrics
TaskCompleted(id, content, metrics) ==
  /\ scriptIterations' = updateScriptIteration(scriptIterations, id,
                           [content |-> content, status |-> "completed",
                            metrics |-> metrics])
  /\ tasks' = EndTask(id)

\* the backend's generateScript returns a draft or throws
GenerateScript(id) ==
  /\ UNCHANGED syncStore
  /\ UNCHANGED callVars
  /\ id \in DOMAIN tasks
  /\ UNCHANGED received
  /\ tasks[id].pc = "generate"
  /\ \/ /\ tasks' = [tasks EXCEPT ![id].content = Draft(id), ![id].pc = "analyze"]
        /\ UNCHANGED scriptIterations
     \/ TaskFailed(id)
  /\ response' = NoResponse
  /\ UNCHANGED <<scripts, scriptId, iterationId, reqs>>

HasPreviousAlways(prevContents) == Len(prevContents) >= 0

\* prevContents.length > 0: "not the first iteration"
HasPrevious(prevContents) == Len(prevContents) > 0

\* the backend's analyzeScript never throws (it falls back to a word count
\* heuristic): the task always gets word count and duration
AnalyzeScript(id) ==
  /\ UNCHANGED syncStore
  /\ UNCHANGED callVars
  /\ id \in DOMAIN tasks
  /\ UNCHANGED received
  /\ tasks[id].pc = "analyze"
  /\ LET metrics == [kind |-> "metrics", redundancyReduction |-> NoRedundancy]
     IN IF HasPrevious(tasks[id].prevContents)
        THEN /\ tasks' = [tasks EXCEPT ![id].metrics = metrics, ![id].pc = "compare"]
             /\ UNCHANGED scriptIterations
        ELSE TaskCompleted(id, tasks[id].content, metrics)
  /\ response' = NoResponse
  /\ UNCHANGED <<scripts, scriptId, iterationId, reqs>>

\* the backend's compareScripts never throws (it falls back to 0): the
\* metrics get a redundancyReduction
CompareScripts(id) ==
  /\ UNCHANGED syncStore
  /\ UNCHANGED callVars
  /\ id \in DOMAIN tasks
  /\ UNCHANGED received
  /\ tasks[id].pc = "compare"
  /\ \E redundancyReduction \in RedundancyReductions :
       TaskCompleted(id, tasks[id].content,
                     [tasks[id].metrics EXCEPT !.redundancyReduction = redundancyReduction])
  /\ response' = NoResponse
  /\ UNCHANGED <<scripts, scriptId, iterationId, reqs>>

\* ================================================== synchronous variant

\* ------------------------------------------------------- the sync store

\* createScript: currentIteration 0, totalIterations 4 and status draft
\* override whatever the request body carried
createScript(id) ==
  [id |-> id, currentIteration |-> 0, totalIterations |-> TotalIterations,
   status |-> "draft"]

\* { ...script, ...updates }; an unknown id changes nothing
updateScript(ss, id, updates) ==
  IF id \notin DOMAIN ss THEN ss
  ELSE [ss EXCEPT ![id] =
          [f \in DOMAIN ss[id] |-> IF f \in DOMAIN updates THEN updates[f] ELSE ss[id][f]]]

getIterationsByScriptId(its, s) ==
  SortByNumber({its[i] : i \in IterationIdsOf(its, s)})

\* the record is stored under a fresh id
storeIteration(its, id, insertIteration) ==
  [i \in DOMAIN its \cup {id} |->
     IF i = id
     THEN [id |-> id,
           scriptId |-> insertIteration.scriptId,
           iterationNumber |-> insertIteration.iterationNumber,
           content |-> insertIteration.content,
           status |-> insertIteration.status]
     ELSE its[i]]

\* createIteration also moves the script's currentIteration forward
scriptAfterCreateIteration(ss, insertIteration) ==
  IF /\ insertIteration.scriptId \in DOMAIN ss
     /\ insertIteration.iterationNumber > ss[insertIteration.scriptId].currentIteration
  THEN updateScript(ss, insertIteration.scriptId,
         [currentIteration |-> insertIteration.iterationNumber,
          status |-> IF insertIteration.iterationNumber
                          >= ss[insertIteration.scriptId].totalIterations
                     THEN "completed" ELSE "in_progress"])
  ELSE ss

updateIterationCreating(its, id, updates) ==
  IF id \notin DOMAIN its
  THEN [i \in DOMAIN its \cup {id} |-> IF i = id THEN updates ELSE its[i]]
  ELSE [its EXCEPT ![id] =
          [f \in DOMAIN its[id] |-> IF f \in DOMAIN updates THEN updates[f] ELSE its[id][f]]]

\* { ...iteration, ...updates }; an unknown id changes nothing
updateIteration(its, id, updates) ==
  IF id \notin DOMAIN its THEN its
  ELSE [its EXCEPT ![id] =
          [f \in DOMAIN its[id] |-> IF f \in DOMAIN updates THEN updates[f] ELSE its[id][f]]]

\* ------------------------------------------------- POST /api/scripts (sync)
SyncPostScripts ==
  /\ BagCardinality(reqs) < MaxReqs
  /\ SyncReceive
  /\ syncScripts' = [i \in DOMAIN syncScripts \cup {scriptCurrentId} |->
                       IF i = scriptCurrentId THEN createScript(scriptCurrentId)
                       ELSE syncScripts[i]]
  /\ scriptCurrentId' = scriptCurrentId + 1
  /\ response' = Respond("POST /api/scripts", scriptCurrentId, 201, NoBody)
  /\ UNCHANGED <<iterations, iterationCurrentId, reqs, tasks>>
  /\ UNCHANGED asyncStore
  /\ UNCHANGED callVars

\* ------------------------------------- POST /api/scripts/:id/generate

\* the handler up to the backend call: the script is looked up and reset
SyncGenerate(sid) ==
  /\ BagCardinality(reqs) < MaxReqs
  /\ SyncReceive
  /\ IF sid \notin DOMAIN syncScripts
     THEN /\ response' = Respond("POST /api/scripts/:id/generate", sid, 404, NoBody)
          /\ UNCHANGED <<syncScripts, reqs>>
     ELSE /\ syncScripts' = updateScript(syncScripts, sid,
                              [status |-> "in_progress", currentIteration |-> 0])
          /\ reqs' = reqs (+) SetToBag({[kind |-> "generate", pc |-> "generateScript",
                                         sid |-> sid, script |-> syncScripts[sid]]})
          /\ response' = NoResponse
  /\ UNCHANGED <<iterations, scriptCurrentId, iterationCurrentId, tasks>>
  /\ UNCHANGED asyncStore
  /\ UNCHANGED callVars

\* the backend call has returned a draft or thrown
SyncGenerateReturns(r) ==
  /\ r \in BagToSet(reqs)
  /\ r.kind = "generate" /\ r.pc = "generateScript"
  /\ reqs' = reqs (-) SetToBag({r})
  /\ \/ LET insertIteration == [scriptId |-> r.sid, iterationNumber |-> 1,
                                content |-> Draft(iterationCurrentId),
                                status |-> "completed"]
            its == storeIteration(iterations, iterationCurrentId, insertIteration)
        IN /\ iterations' = its
           /\ iterationCurrentId' = iterationCurrentId + 1
           /\ syncScripts' = updateScript(
                               scriptAfterCreateIteration(syncScripts, insertIteration),
                               r.sid, [currentIteration |-> 1, status |-> "in_progress"])
           /\ response' = Respond("POST /api/scripts/:id/generate", r.sid, 200,
                                  its[iterationCurrentId])
     \/ /\ response' = Respond("POST /api/scripts/:id/generate", r.sid, 500, NoBody)
        /\ UNCHANGED <<syncScripts, iterations, iterationCurrentId>>
  /\ UNCHANGED <<scriptCurrentId, tasks, received>>
  /\ UNCHANGED asyncStore
  /\ UNCHANGED callVars

\* -------------------------------------- POST /api/scripts/:id/improve

\* the handler up to the backend call: the next number and the cap check
SyncImprove(sid) ==
  /\ BagCardinality(reqs) < MaxReqs
  /\ SyncReceive
  /\ IF sid \notin DOMAIN syncScripts
     THEN /\ response' = Respond("POST /api/scripts/:id/improve", sid, 404, NoBody)
          /\ UNCHANGED reqs
     ELSE LET script == syncScripts[sid]
              list == getIterationsByScriptId(iterations, sid)
              nextIterationNumber ==
                IF Len(list) > 0 THEN MaxIterationNumber(list) + 1 ELSE 1
          IN IF nextIterationNumber > script.totalIterations
             THEN /\ response' = Respond("POST /api/scripts/:id/improve", sid, 400, NoBody)
                  /\ UNCHANGED reqs
             ELSE IF Len(list) = 0
             THEN /\ response' = Respond("POST /api/scripts/:id/improve", sid, 400, NoBody)
                  /\ UNCHANGED reqs
             ELSE /\ reqs' = reqs (+) SetToBag({[kind |-> "improve", pc |-> "improveScript",
                                                 sid |-> sid, script |-> script,
                                                 nextIterationNumber |-> nextIterationNumber,
                                                 previousContent |->
                                                   LatestIteration(list).content]})
                  /\ response' = NoResponse
  /\ UNCHANGED <<tasks>>
  /\ UNCHANGED syncStore
  /\ UNCHANGED asyncStore
  /\ UNCHANGED callVars

\* the backend call has returned the improved draft or thrown
SyncImproveReturns(r) ==
  /\ r \in BagToSet(reqs)
  /\ r.kind = "improve" /\ r.pc = "improveScript"
  /\ reqs' = reqs (-) SetToBag({r})
  /\ \/ LET insertIteration == [scriptId |-> r.sid,
                                iterationNumber |-> r.nextIterationNumber,
                                content |-> Draft(iterationCurrentId),
                                status |-> "completed"]
            its == storeIteration(iterations, iterationCurrentId, insertIteration)
            isComplete == r.nextIterationNumber >= r.script.totalIterations
        IN /\ iterations' = its
           /\ iterationCurrentId' = iterationCurrentId + 1
           /\ syncScripts' = updateScript(
                               scriptAfterCreateIteration(syncScripts, insertIteration),
                               r.sid,
                               [currentIteration |-> r.nextIterationNumber,
                                status |-> IF isComplete THEN "completed"
                                           ELSE "in_progress"])
           /\ response' = [route |-> "POST /api/scripts/:id/improve", sid |-> r.sid,
                           status |-> 200, body |-> its[iterationCurrentId],
                           isComplete |-> isComplete]
     \/ /\ response' = Respond("POST /api/scripts/:id/improve", r.sid, 500, NoBody)
        /\ UNCHANGED <<syncScripts, iterations, iterationCurrentId>>
  /\ UNCHANGED <<scriptCurrentId, tasks, received>>
  /\ UNCHANGED asyncStore
  /\ UNCHANGED callVars

\* ---------------------------------------------- PATCH /api/scripts/:id

\* the request body is merged onto the script as it is
PatchBodies == {[totalIterations |-> 2], [status |-> "draft"]}

SyncPatchScript(sid, body) ==
  /\ BagCardinality(reqs) < MaxReqs
  /\ SyncReceive
  /\ IF sid \notin DOMAIN syncScripts
     THEN /\ response' = Respond("PATCH /api/scripts/:id", sid, 404, NoBody)
          /\ UNCHANGED syncScripts
     ELSE /\ syncScripts' = updateScript(syncScripts, sid, body)
          /\ response' = Respond("PATCH /api/scripts/:id", sid, 200, NoBody)
  /\ UNCHANGED <<iterations, scriptCurrentId, iterationCurrentId, reqs, tasks>>
  /\ UNCHANGED asyncStore
  /\ UNCHANGED callVars

\* --------------------------------------------- DELETE /api/scripts/:id

\* deleteScript of the sync store removes the script and nothing else
SyncDeleteScript(sid) ==
  /\ BagCardinality(reqs) < MaxReqs
  /\ SyncReceive
  /\ IF sid \notin DOMAIN syncScripts
     THEN /\ response' = Respond("DELETE /api/scripts/:id", sid, 404, NoBody)
          /\ UNCHANGED syncScripts
     ELSE /\ syncScripts' = [i \in DOMAIN syncScripts \ {sid} |-> syncScripts[i]]
          /\ response' = Respond("DELETE /api/scripts/:id", sid, 204, NoBody)
  /\ UNCHANGED <<iterations, scriptCurrentId, iterationCurrentId, reqs, tasks>>
  /\ UNCHANGED asyncStore
  /\ UNCHANGED callVars

\* ------------------------------------------- PATCH /api/iterations/:id
SyncPatchIteration(iid, content) ==
  /\ BagCardinality(reqs) < MaxReqs
  /\ SyncReceive
  /\ IF iid \notin DOMAIN iterations
     THEN /\ response' = Respond("PATCH /api/iterations/:id", 0, 404, NoBody)
          /\ UNCHANGED iterations
     ELSE LET its == updateIteration(iterations, iid, [content |-> content])
          IN /\ iterations' = its
             /\ response' = Respond("PATCH /api/iterations/:id", its[iid].scriptId, 200,
                                    its[iid])
  /\ UNCHANGED <<syncScripts, scriptCurrentId, iterationCurrentId, reqs, tasks>>
  /\ UNCHANGED asyncStore
  /\ UNCHANGED callVars

\* ======================================================== exportScript
\* (src/unnamed/part_005)  A text is a sequence of characters; the markup an
\* export inserts and the fixed parts of a document are single elements of
\* the sequence, which no pattern below matches.

Digits == {"0", "1", "2", "3", "4", "5", "6", "7", "8", "9"}
\* \s, of which the texts of the model use the blank and the line break
Whitespace == {" ", "\n", "\t"}

\* \d+ from position p: the position after the longest run of digits
RECURSIVE DigitsEnd(_, _)
DigitsEnd(s, p) ==
  IF p <= Len(s) /\ s[p] \in Digits THEN DigitsEnd(s, p + 1) ELSE p

\* \d+:\d+ from position p: the position after the match, 0 without a match
TimeEnd(s, p) ==
  LET a == DigitsEnd(s, p)
  IN IF a > p /\ a <= Len(s) /\ s[a] = ":"
     THEN LET b == DigitsEnd(s, a + 1) IN IF b > a + 1 THEN b ELSE 0
     ELSE 0

\* /\(\d+:\d+(?:-\d+:\d+)?\)/ at position p: the position after the match,
\* 0 without a match; the optional range is tried first
TimestampEnd(s, p) ==
  IF p > Len(s) \/ s[p] # "(" THEN 0
  ELSE LET a == TimeEnd(s, p + 1)
           r == IF a # 0 /\ a <= Len(s) /\ s[a] = "-" THEN TimeEnd(s, a + 1) ELSE 0
       IN IF a = 0 THEN 0
          ELSE IF r # 0 /\ r <= Len(s) /\ s[r] = ")" THEN r + 1
          ELSE IF a <= Len(s) /\ s[a] = ")" THEN a + 1
          ELSE 0

\* .replace(/\(\d+:\d+(?:-\d+:\d+)?\)/g, ...) from position p: every match,
\* left to right, is wrapped (keep) or dropped
RECURSIVE ReplaceTimestamps(_, _, _, _, _)
ReplaceTimestamps(s, p, keep, open, close) ==
  IF p > Len(s) THEN <<>>
  ELSE LET e == TimestampEnd(s, p)
       IN IF e # 0
          THEN (IF keep THEN open \o SubSeq(s, p, e - 1) \o close ELSE <<>>)
               \o ReplaceTimestamps(s, e, keep, open, close)
          ELSE <<s[p]>> \o ReplaceTimestamps(s, p + 1, keep, open, close)

\* ^ with the m flag
AtLineStart(s, p) == p = 1 \/ s[p - 1] = "\n"

\* ^##\s at position p
SectionMarkerAt(s, p) ==
  /\ AtLineStart(s, p)
  /\ p + 2 <= Len(s)
  /\ s[p] = "#" /\ s[p + 1] = "#"
  /\ s[p + 2] \in Whitespace

\* .*$ from position p: the position of the next line break, or the end
RECURSIVE LineEnd(_, _)
LineEnd(s, p) ==
  IF p > Len(s) \/ s[p] = "\n" THEN p ELSE LineEnd(s, p + 1)

\* .replace(/^##\s.*$/gm, '') from position p: a section line is emptied
RECURSIVE RemoveSections(_, _)
RemoveSections(s, p) ==
  IF p > Len(s) THEN <<>>
  ELSE IF SectionMarkerAt(s, p) THEN RemoveSections(s, LineEnd(s, p + 3))
  ELSE <<s[p]>> \o RemoveSections(s, p + 1)

\* .replace(/^##\s(.*?)$/gm, '**$1**') from position p
RECURSIVE BoldSections(_, _)
BoldSections(s, p) ==
  IF p > Len(s) THEN <<>>
  ELSE IF SectionMarkerAt(s, p)
  THEN LET e == LineEnd(s, p + 3)
       IN <<"*", "*">> \o SubSeq(s, p + 3, e - 1) \o <<"*", "*">> \o BoldSections(s, e)
  ELSE <<s[p]>> \o BoldSections(s, p + 1)

\* the delimiter d stands at position p
MatchesAt(s, p, d) ==
  p + Len(d) - 1 <= Len(s) /\ SubSeq(s, p, p + Len(d) - 1) = d

\* formattedScript.includes(d)
Includes(s, d) == \E p \in 1..Len(s) : MatchesAt(s, p, d)

\* (.*?) followed by d, from position q: where d closes, 0 if the line or
\* the text ends first
RECURSIVE FindClose(_, _, _)
FindClose(s, q, d) ==
  IF q > Len(s) THEN 0
  ELSE IF MatchesAt(s, q, d) THEN q
  ELSE IF s[q] = "\n" THEN 0
  ELSE FindClose(s, q + 1, d)

\* .replace(/d(.*?)d/g, open $1 close) from position p, d being ** or *
RECURSIVE ReplaceDelimited(_, _, _, _, _)
ReplaceDelimited(s, p, d, open, close) ==
  IF p > Len(s) THEN <<>>
  ELSE LET q == IF MatchesAt(s, p, d) THEN FindClose(s, p + Len(d), d) ELSE 0
       IN IF q # 0
          THEN open \o SubSeq(s, p + Len(d), q - 1) \o close
               \o ReplaceDelimited(s, q + Len(d), d, open, close)
          ELSE <<s[p]>> \o ReplaceDelimited(s, p + 1, d, open, close)

\* /\[pause\]/gi and /\[emphasis\]/gi: the characters each position accepts
PauseNote ==
  <<{"["}, {"p", "P"}, {"a", "A"}, {"u", "U"}, {"s", "S"}, {"e", "E"}, {"]"}>>
EmphasisNote ==
  <<{"["}, {"e", "E"}, {"m", "M"}, {"p", "P"}, {"h", "H"}, {"a", "A"}, {"s", "S"},
    {"i", "I"}, {"s", "S"}, {"]"}>>

NoteAt(s, p, note) ==
  /\ p + Len(note) - 1 <= Len(s)
  /\ \A k \in 1..Len(note) : s[p + k - 1] \in note[k]

\* .replace(note, replacement) from position p
RECURSIVE ReplaceNote(_, _, _, _)
ReplaceNote(s, p, note, replacement) ==
  IF p > Len(s) THEN <<>>
  ELSE IF NoteAt(s, p, note)
  THEN replacement \o ReplaceNote(s, p + Len(note), note, replacement)
  ELSE <<s[p]>> \o ReplaceNote(s, p + 1, note, replacement)

\* the markup the HTML export inserts
TimestampOpen == <<"<span class=\"timestamp\">">>
SpanClose == <<"</span>">>
StrongOpen == <<"<strong>">>
StrongClose == <<"</strong>">>
EmOpen == <<"<em>">>
EmClose == <<"</em>">>
PauseMarkup == <<"<span class=\"talent-note\">[PAUSE]</span>">>
EmphasisMarkup == <<"<span class=\"talent-note\">[EMPHASIS]</span>">>

\* the four replacements of formatForTalent, in the order of the chain
FormatForTalent(s) ==
  LET bold == ReplaceDelimited(s, 1, <<"*", "*">>, StrongOpen, StrongClose)
      italic == ReplaceDelimited(bold, 1, <<"*">>, EmOpen, EmClose)
      pause == ReplaceNote(italic, 1, PauseNote, PauseMarkup)
  IN ReplaceNote(pause, 1, EmphasisNote, EmphasisMarkup)

\* The title and the metadata of a document are fixed texts here (a title
\* and metadata values without time spans): one element each.
scriptToHtml(script, settings) ==
  LET head == <<"<!DOCTYPE html>...<h1>Title</h1>">>
      metadata == IF settings.includeMetadata
                  THEN <<"<div class=\"metadata\">...</div>">> ELSE <<>>
      sections == IF settings.includeSections THEN script
                  ELSE RemoveSections(script, 1)
      timestamps == ReplaceTimestamps(sections, 1, settings.includeTimestamps,
                                      TimestampOpen, SpanClose)
      formattedScript == IF settings.formatForTalent THEN FormatForTalent(timestamps)
                         ELSE timestamps
  IN head \o metadata \o <<"<div class=\"script\">">> \o formattedScript
          \o <<"</div>\n</body>\n</html>">>

scriptToText(script, settings) ==
  LET head == <<"Title\n=====\n\n">>
      metadata == IF settings.includeMetadata THEN <<"Created: ...\n\n">> ELSE <<>>
      sections == IF ~settings.includeSections THEN RemoveSections(script, 1)
                  ELSE script
      formattedScript == IF ~settings.includeTimestamps
                         THEN ReplaceTimestamps(sections, 1, FALSE, <<>>, <<>>)
                         ELSE sections
  IN head \o metadata \o formattedScript

scriptToMarkdown(script, settings) ==
  LET head == <<"# Title\n\n">>
      metadata == IF settings.includeMetadata
                  THEN <<"## Metadata\n\n**Created**: ...\n\n">> ELSE <<>>
      sections == IF ~settings.includeSections /\ Includes(script, <<"#", "#">>)
                  THEN BoldSections(script, 1) ELSE script
      formattedScript == IF ~settings.includeTimestamps
                         THEN ReplaceTimestamps(sections, 1, FALSE, <<>>, <<>>)
                         ELSE sections
  IN head \o metadata \o formattedScript

\* exportSettingsSchema: format
Formats == {"google_docs", "word", "text", "markdown"}
HtmlFormats == {"google_docs", "word"}

\* exportSettingsSchema: the toggles the converters read
Settings ==
  [includeMetadata : BOOLEAN, includeTimestamps : BOOLEAN,
   includeSections : BOOLEAN, formatForTalent : BOOLEAN]

exportScript(script, format, settings) ==
  IF format \in HtmlFormats THEN scriptToHtml(script, settings)
  ELSE IF format = "text" THEN scriptToText(script, settings)
  ELSE scriptToMarkdown(script, settings)

\* the pieces a script content is made of: time spans in both forms, a
\* section marker, a line break, a word, an asterisk, a talent note and a
\* parenthesis that is no time span
Pieces ==
  {<<"(", "1", ":", "2", "3", "-", "1", ":", "4", "5", ")">>,
   <<"(", "0", ":", "0", "5", ")">>,
   <<"#", "#", " ">>,
   <<"\n">>,
   <<"a">>,
   <<"*">>,
   <<"[", "p", "a", "u", "s", "e", "]">>,
   <<"(", "7", ")">>}

RECURSIVE Flatten(_)
Flatten(pieces) ==
  IF pieces = <<>> THEN <<>> ELSE Head(pieces) \o Flatten(Tail(pieces))

\* the contents of at most MaxPieces pieces
Contents == {Flatten(ps) : ps \in UNION {[1..n -> Pieces] : n \in 0..MaxPieces}}

\* the call of exportScript on the content at hand
ExportScriptCall(format, settings) ==
  /\ exportScriptOutput = NoDocument
  /\ exportScriptOutput' =
       [format |-> format, settings |-> settings,
        document |-> exportScript(exportScriptInput, format, settings)]
  /\ UNCHANGED <<exportScriptInput, generation, storeCall>>
  /\ UNCHANGED <<asyncStore, syncStore, reqs, tasks, response, received>>

\* ================================ generateScriptContent and its backends

\* Model identifiers, as sequences of pieces that 'claude' never straddles:
\* the ones the clients offer, and some no client offers.
KnownAiModels ==
  { <<"gpt-4">>, <<"gpt-3.5">>, <<"claude">>, <<"grok">>,
    <<"gpt-4o">>, <<"claude", "-3-7-sonnet-20250219">> }

AiModels == KnownAiModels \cup { <<"Claude", "-2">>, <<"llama">>, <<>> }

\* aiModel.toLowerCase()
ToLowerCase(aiModel) ==
  [k \in 1..Len(aiModel) |-> IF aiModel[k] = "Claude" THEN "claude" ELSE aiModel[k]]

AdapterCaseSensitive(aiModel) ==
  IF Includes(aiModel, <<"claude">>) THEN "anthropic" ELSE "openai"

\* script.aiModel.toLowerCase().includes('claude') ? anthropic : openai
Adapter(aiModel) ==
  IF Includes(ToLowerCase(aiModel), <<"claude">>) THEN "anthropic" ELSE "openai"

\* the switch of getAIService: one identifier is Anthropic's, every other
\* one (grok and the default case included) gets the OpenAI service
getAIService(model) ==
  CASE model = <<"gpt-4o">> -> "openai"
    [] model = <<"claude", "-3-7-sonnet-20250219">> -> "anthropic"
    [] model = <<"grok">> -> "openai"
    [] OTHER -> "openai"

\* A text is kept as its number of words and whether whitespace stands
\* before the first and after the last of them.
Text(leading, words, trailing) ==
  [source |-> "provider", leading |-> leading, words |-> words, trailing |-> trailing]

EmptyString == Text(FALSE, 0, FALSE)

\* "Failed to generate script."
FailedToGenerate ==
  [source |-> "placeholder", leading |-> FALSE, words |-> 4, trailing |-> FALSE]

\* script.split(/\s+/).length: the words, one empty piece for whitespace at
\* either end; '' gives [''] and a blank text ['', '']
SplitLength(script) ==
  IF script.words = 0
  THEN IF script.leading \/ script.trailing THEN 2 ELSE 1
  ELSE script.words + (IF script.leading THEN 1 ELSE 0)
                    + (IF script.trailing THEN 1 ELSE 0)

WordsPerMinute == 150
SecondsPerMinute == 60

\* Math.round(n / d) for n >= 0, d > 0: halves go up
Round(n, d) == (2 * n + d) \div (2 * d)

\* Math.round(wordCount / 150 * 60)
FallbackDuration(wordCount) == Round(wordCount * SecondsPerMinute, WordsPerMinute)

\* What a provider call comes back with.
ProviderError == [kind |-> "error"]
NoContent == [kind |-> "no content"]
Texts ==
  { EmptyString, Text(TRUE, 0, TRUE), Text(FALSE, 1, FALSE), Text(TRUE, 2, FALSE),
    Text(FALSE, 100, FALSE), Text(FALSE, 450, TRUE), Text(FALSE, 450, FALSE) }
GenerateReplies ==
  {ProviderError, NoContent} \cup {[kind |-> "text", text |-> t] : t \in Texts}
\* the JSON of an analysis; 0 stands for a missing or falsy field
AnalyzeReplies ==
  {ProviderError, NoContent}
    \cup {[kind |-> "json", wordCount |-> w, estimatedDuration |-> d] :
            w \in {0, 500}, d \in {0, 200}}
CompareReplies ==
  {ProviderError, NoContent}
    \cup {[kind |-> "json", redundancyReduction |-> r] : r \in RedundancyReductions}

\* A backend method returns a value ([kind |-> "returned", value |-> v]) or
\* throws ([kind |-> "thrown"]).

\* Anthropic generateScript: response.content[0].text as it is, a provider
\* error (or a response without a content block) thrown again
anthropicGenerateScript(reply) ==
  IF reply.kind = "text" THEN [kind |-> "returned", value |-> reply.text] ELSE [kind |-> "thrown"]

\* OpenAI generateScript: message.content || "Failed to generate script.",
\* a provider error thrown again
openaiGenerateScript(reply) ==
  IF reply.kind = "error" THEN [kind |-> "thrown"]
  ELSE IF reply.kind = "text" /\ reply.text # EmptyString
  THEN [kind |-> "returned", value |-> reply.text]
  ELSE [kind |-> "returned", value |-> FailedToGenerate]

\* analyzeScript, the same in both backends: the returned fields
\* (result.x || fallback), and the basic analysis when the call or the parse
\* failed
Analysis(script, reply) ==
  IF reply.kind = "json"
  THEN [wordCount |-> IF reply.wordCount # 0 THEN reply.wordCount
                      ELSE SplitLength(script),
        estimatedDuration |-> IF reply.estimatedDuration # 0
                              THEN reply.estimatedDuration
                              ELSE FallbackDuration(SplitLength(script)),
        redundancyReduction |-> NoRedundancy]
  ELSE [wordCount |-> SplitLength(script),
        estimatedDuration |-> FallbackDuration(SplitLength(script)),
        redundancyReduction |-> NoRedundancy]

ComparisonWithoutFallback(reply) ==
  IF reply.kind = "json" THEN reply.redundancyReduction ELSE NoRedundancy

\* compareScripts, the same in both backends: result.redundancyReduction
\* || 0, and 0 when the call or the parse failed
Comparison(reply) ==
  IF reply.kind = "json" THEN reply.redundancyReduction ELSE 0

\* a run of generateScriptContent from its first line
NewGeneration(aiModel, prevContents) ==
  [pc |-> "generate", aiModel |-> aiModel, prevContents |-> prevContents,
   calls |-> <<>>, replies |-> <<>>, content |-> EmptyString,
   metrics |-> NullMetrics, update |-> [status |-> "none"], service |-> "none"]

\* content = await <adapter>.generateScript(options); a throw is caught
\* and the iteration updated to failed
CallGenerateScript(reply) ==
  /\ generation.pc = "generate"
  /\ LET adapter == Adapter(generation.aiModel)
         result == IF adapter = "anthropic" THEN anthropicGenerateScript(reply)
                   ELSE openaiGenerateScript(reply)
         called == [generation EXCEPT !.calls = Append(@, adapter),
                                      !.replies = Append(@, reply)]
     IN generation' =
          IF result.kind = "thrown"
          THEN [called EXCEPT !.pc = "done",
                  !.update = [content |-> ErrorContent, status |-> "failed"]]
          ELSE [called EXCEPT !.pc = "analyze", !.content = result.value]
  /\ UNCHANGED <<exportScriptInput, exportScriptOutput, storeCall>>
  /\ UNCHANGED <<asyncStore, syncStore, reqs, tasks, response, received>>

\* metrics = await <adapter>.analyzeScript(content), then the final update
\* when this is the first iteration
CallAnalyzeScript(reply) ==
  /\ generation.pc = "analyze"
  /\ LET adapter == Adapter(generation.aiModel)
         metrics == Analysis(generation.content, reply)
         called == [generation EXCEPT !.calls = Append(@, adapter),
                                      !.replies = Append(@, reply),
                                      !.metrics = metrics]
     IN generation' =
          IF HasPrevious(generation.prevContents)
          THEN [called EXCEPT !.pc = "compare"]
          ELSE [called EXCEPT !.pc = "done",
                  !.update = [content |-> generation.content,
                              status |-> "completed", metrics |-> metrics]]
  /\ UNCHANGED <<exportScriptInput, exportScriptOutput, storeCall>>
  /\ UNCHANGED <<asyncStore, syncStore, reqs, tasks, response, received>>

\* comparison = await <adapter>.compareScripts(lastContent, content), its
\* redundancyReduction put into the metrics, then the final update
CallCompareScripts(reply) ==
  /\ generation.pc = "compare"
  /\ LET adapter == Adapter(generation.aiModel)
         redundancyReduction == Comparison(reply)
         metrics == [generation.metrics EXCEPT
                       !.redundancyReduction = redundancyReduction]
     IN generation' =
          [generation EXCEPT !.calls = Append(@, adapter),
                             !.replies = Append(@, reply),
                             !.metrics = metrics,
                             !.pc = "done",
                             !.update = [content |-> generation.content,
                                         status |-> "completed",
                                         metrics |-> metrics]]
  /\ UNCHANGED <<exportScriptInput, exportScriptOutput, storeCall>>
  /\ UNCHANGED <<asyncStore, syncStore, reqs, tasks, response, received>>

\* the synchronous routes' getAIService(script.model), for the same
\* identifier
CallGetAIService ==
  /\ generation.pc # "none"
  /\ generation.service = "none"
  /\ generation' = [generation EXCEPT !.service = getAIService(generation.aiModel)]
  /\ UNCHANGED <<exportScriptInput, exportScriptOutput, storeCall>>
  /\ UNCHANGED <<asyncStore, syncStore, reqs, tasks, response, received>>

\* ===================================== the store methods on their own

MaxCalls == 3

\* what Map.get gives for an id that is not there
Undefined == [kind |-> "undefined"]

\* the value an update method returns: the stored record or undefined
Returns(records, id) == IF id \in DOMAIN records THEN records[id] ELSE Undefined

\* the second MemStorage's updateScript: { ...script, ...scriptUpdate }; an
\* unknown id changes nothing
updateScriptOfAsyncStore(ss, id, scriptUpdate) ==
  IF id \notin DOMAIN ss THEN ss
  ELSE [ss EXCEPT ![id] =
          [f \in DOMAIN ss[id] |->
             IF f \in DOMAIN scriptUpdate THEN scriptUpdate[f] ELSE ss[id][f]]]

\* the fields callers hand to the update methods
IterationUpdates ==
  { <<>>, [status |-> "failed"],
    [content |-> "edit X", status |-> "completed"],
    [content |-> Draft(1), status |-> "completed",
     metrics |-> [kind |-> "metrics", redundancyReduction |-> 0]] }
SyncIterationUpdates == {<<>>, [content |-> "edit X"], [status |-> "failed"]}

\* a call is counted and its arguments and return value noted
Called(op, id, updates, result) ==
  [op |-> op, id |-> id, updates |-> updates, result |-> result,
   n |-> storeCall.n + 1]

StoreCreateScript(n) ==
  /\ storeCall.n < MaxCalls
  /\ LET script == [id |-> scriptId, iterations |-> n]
     IN /\ scripts' = [i \in DOMAIN scripts \cup {scriptId} |->
                         IF i = scriptId THEN script ELSE scripts[i]]
        /\ storeCall' = Called("createScript", scriptId, <<>>, script)
  /\ scriptId' = scriptId + 1
  /\ UNCHANGED <<scriptIterations, iterationId>>
  /\ UNCHANGED <<syncStore, reqs, tasks, response, received>>
  /\ UNCHANGED <<exportScriptInput, exportScriptOutput, generation>>

StoreCreateScriptIteration(sid) ==
  /\ storeCall.n < MaxCalls
  /\ LET its == createScriptIteration(scriptIterations, iterationId,
                  InProgressIteration(sid, 1, PlaceholderInitial))
     IN /\ scriptIterations' = its
        /\ storeCall' = Called("createScriptIteration", iterationId, <<>>,
                               its[iterationId])
  /\ iterationId' = iterationId + 1
  /\ UNCHANGED <<scripts, scriptId>>
  /\ UNCHANGED <<syncStore, reqs, tasks, response, received>>
  /\ UNCHANGED <<exportScriptInput, exportScriptOutput, generation>>

StoreUpdateScript(id, scriptUpdate) ==
  /\ storeCall.n < MaxCalls
  /\ LET ss == updateScriptOfAsyncStore(scripts, id, scriptUpdate)
     IN /\ scripts' = ss
        /\ storeCall' = Called("updateScript", id, scriptUpdate, Returns(ss, id))
  /\ UNCHANGED <<scriptIterations, scriptId, iterationId>>
  /\ UNCHANGED <<syncStore, reqs, tasks, response, received>>
  /\ UNCHANGED <<exportScriptInput, exportScriptOutput, generation>>

StoreUpdateScriptIteration(id, iterationUpdate) ==
  /\ storeCall.n < MaxCalls
  /\ LET its == updateScriptIteration(scriptIterations, id, iterationUpdate)
     IN /\ scriptIterations' = its
        /\ storeCall' = Called("updateScriptIteration", id, iterationUpdate,
                               Returns(its, id))
  /\ UNCHANGED <<scripts, scriptId, iterationId>>
  /\ UNCHANGED <<syncStore, reqs, tasks, response, received>>
  /\ UNCHANGED <<exportScriptInput, exportScriptOutput, generation>>

SyncStoreCreateScript ==
  /\ storeCall.n < MaxCalls
  /\ syncScripts' = [i \in DOMAIN syncScripts \cup {scriptCurrentId} |->
                       IF i = scriptCurrentId THEN createScript(scriptCurrentId)
                       ELSE syncScripts[i]]
  /\ storeCall' = Called("sync createScript", scriptCurrentId, <<>>,
                         createScript(scriptCurrentId))
  /\ scriptCurrentId' = scriptCurrentId + 1
  /\ UNCHANGED <<iterations, iterationCurrentId>>
  /\ UNCHANGED <<asyncStore, reqs, tasks, response, received>>
  /\ UNCHANGED <<exportScriptInput, exportScriptOutput, generation>>

SyncStoreCreateIteration(sid) ==
  /\ storeCall.n < MaxCalls
  /\ LET insertIteration == [scriptId |-> sid, iterationNumber |-> 1,
                             content |-> Draft(iterationCurrentId),
                             status |-> "completed"]
         its == storeIteration(iterations, iterationCurrentId, insertIteration)
     IN /\ iterations' = its
        /\ syncScripts' = scriptAfterCreateIteration(syncScripts, insertIteration)
        /\ storeCall' = Called("sync createIteration", iterationCurrentId, <<>>,
                               its[iterationCurrentId])
  /\ iterationCurrentId' = iterationCurrentId + 1
  /\ UNCHANGED scriptCurrentId
  /\ UNCHANGED <<asyncStore, reqs, tasks, response, received>>
  /\ UNCHANGED <<exportScriptInput, exportScriptOutput, generation>>

SyncStoreUpdateScript(id, updates) ==
  /\ storeCall.n < MaxCalls
  /\ LET ss == updateScript(syncScripts, id, updates)
     IN /\ syncScripts' = ss
        /\ storeCall' = Called("sync updateScript", id, updates, Returns(ss, id))
  /\ UNCHANGED <<iterations, scriptCurrentId, iterationCurrentId>>
  /\ UNCHANGED <<asyncStore, reqs, tasks, response, received>>
  /\ UNCHANGED <<exportScriptInput, exportScriptOutput, generation>>

SyncStoreUpdateIteration(id, updates) ==
  /\ storeCall.n < MaxCalls
  /\ LET its == updateIteration(iterations, id, updates)
     IN /\ iterations' = its
        /\ storeCall' = Called("sync updateIteration", id, updates, Returns(its, id))
  /\ UNCHANGED <<syncScripts, scriptCurrentId, iterationCurrentId>>
  /\ UNCHANGED <<asyncStore, reqs, tasks, response, received>>
  /\ UNCHANGED <<exportScriptInput, exportScriptOutput, generation>>

\* ------------------------------------------------------ specifications

Init ==
  /\ scripts = <<>>
  /\ scriptIterations = <<>>
  /\ scriptId = 1
  /\ iterationId = 1
  /\ reqs = EmptyBag
  /\ tasks = <<>>
  /\ response = NoResponse
  /\ received = 0
  /\ syncScripts = <<>>
  /\ iterations = <<>>
  /\ scriptCurrentId = 1
  /\ iterationCurrentId = 1
  /\ exportScriptInput = <<>>
  /\ exportScriptOutput = NoDocument
  /\ generation = NoGeneration
  /\ storeCall = NoStoreCall

\* The ids a client names: a script whose creation has been answered, an
\* iteration in the store, or 0, which is never in use.
KnownScriptIds ==
  {s \in DOMAIN scripts :
     \A r \in BagToSet(reqs) : r.kind = "create" => r.script.id # s} \cup {0}

KnownIterationIds == DOMAIN scriptIterations \cup {0}

\* a request arrives
Arrive ==
  \/ \E n \in RequestedIterations : PostScripts(n)
  \/ \E sid \in KnownScriptIds : PostIterations(sid)
  \/ \E sid \in KnownScriptIds, iid \in KnownIterationIds, content \in EditContents :
       PutIteration(sid, iid, content)
  \/ \E sid \in KnownScriptIds : PostExport(sid)

\* a suspended handler resumes
Resume ==
  \/ \E r \in BagToSet(reqs) : StartScriptGeneration(r)
  \/ \E r \in BagToSet(reqs) : GetScript(r)
  \/ \E r \in BagToSet(reqs) : GetScriptIterations(r)
  \/ \E r \in BagToSet(reqs) : GenerateNextIteration(r)

\* the next backend call of the task of iteration id returns
TaskStep(id) == GenerateScript(id) \/ AnalyzeScript(id) \/ CompareScripts(id)

\* a backend call of a generation task returns
Backend ==
  \/ \E id \in DOMAIN tasks : GenerateScript(id)
  \/ \E id \in DOMAIN tasks : AnalyzeScript(id)
  \/ \E id \in DOMAIN tasks : CompareScripts(id)

Next == Arrive \/ Resume \/ Backend

Spec == Init /\ [][Next]_vars

\* handlers that run to their response before the next request is taken
NextSerial == (reqs = EmptyBag /\ Arrive) \/ Resume \/ Backend

SpecSerial == Init /\ [][NextSerial]_vars

\* every backend call eventually returns or throws
SpecLive == SpecSerial /\ \A id \in 1..MaxRequests : WF_vars(TaskStep(id))

\* the synchronous variant
SyncScriptIds == 0..(scriptCurrentId - 1)
SyncIterationIds == 0..(iterationCurrentId - 1)

SyncArrive ==
  \/ SyncPostScripts
  \/ \E sid \in SyncScriptIds : SyncGenerate(sid)
  \/ \E sid \in SyncScriptIds : SyncImprove(sid)
  \/ \E sid \in SyncScriptIds, body \in PatchBodies : SyncPatchScript(sid, body)
  \/ \E sid \in SyncScriptIds : SyncDeleteScript(sid)
  \/ \E iid \in SyncIterationIds, content \in EditContents :
       SyncPatchIteration(iid, content)

SyncResume ==
  \/ \E r \in BagToSet(reqs) : SyncGenerateReturns(r)
  \/ \E r \in BagToSet(reqs) : SyncImproveReturns(r)

NextSync == SyncArrive \/ SyncResume

SpecSync == Init /\ [][NextSync]_vars

\* the synchronous variant with one request at a time
NextSyncSerial == (reqs = EmptyBag /\ SyncArrive) \/ SyncResume

SpecSyncSerial == Init /\ [][NextSyncSerial]_vars

\* exportScript on its own: any content, then one call
InitExport ==
  /\ scripts = <<>>
  /\ scriptIterations = <<>>
  /\ scriptId = 1
  /\ iterationId = 1
  /\ reqs = EmptyBag
  /\ tasks = <<>>
  /\ response = NoResponse
  /\ received = 0
  /\ syncScripts = <<>>
  /\ iterations = <<>>
  /\ scriptCurrentId = 1
  /\ iterationCurrentId = 1
  /\ exportScriptInput \in Contents
  /\ exportScriptOutput = NoDocument
  /\ generation = NoGeneration
  /\ storeCall = NoStoreCall

NextExport == \E format \in Formats, settings \in Settings : ExportScriptCall(format, settings)

SpecExport == InitExport /\ [][NextExport]_vars

\* generateScriptContent on its own: any model identifier, with or without
\* a previous draft, and any replies of the provider
InitGeneration ==
  /\ scripts = <<>>
  /\ scriptIterations = <<>>
  /\ scriptId = 1
  /\ iterationId = 1
  /\ reqs = EmptyBag
  /\ tasks = <<>>
  /\ response = NoResponse
  /\ received = 0
  /\ syncScripts = <<>>
  /\ iterations = <<>>
  /\ scriptCurrentId = 1
  /\ iterationCurrentId = 1
  /\ exportScriptInput = <<>>
  /\ exportScriptOutput = NoDocument
  /\ generation \in {NewGeneration(aiModel, prevContents) :
                       aiModel \in AiModels,
                       prevContents \in {<<>>, <<Text(FALSE, 2, FALSE)>>}}
  /\ storeCall = NoStoreCall

NextGeneration ==
  \/ \E reply \in GenerateReplies : CallGenerateScript(reply)
  \/ \E reply \in AnalyzeReplies : CallAnalyzeScript(reply)
  \/ \E reply \in CompareReplies : CallCompareScripts(reply)
  \/ CallGetAIService

SpecGeneration == InitGeneration /\ [][NextGeneration]_vars

\* the two stores under any caller: both start empty, and a caller names
\* the ids given out or the next one
NextStore ==
  \/ \E n \in {MinIterations, MaxIterations} : StoreCreateScript(n)
  \/ \E sid \in 1..scriptId : StoreCreateScriptIteration(sid)
  \/ \E id \in 1..scriptId, scriptUpdate \in {<<>>, [iterations |-> MaxIterations]} :
       StoreUpdateScript(id, scriptUpdate)
  \/ \E id \in 1..iterationId, iterationUpdate \in IterationUpdates :
       StoreUpdateScriptIteration(id, iterationUpdate)
  \/ SyncStoreCreateScript
  \/ \E sid \in 1..scriptCurrentId : SyncStoreCreateIteration(sid)
  \/ \E id \in 1..scriptCurrentId, updates \in PatchBodies :
       SyncStoreUpdateScript(id, updates)
  \/ \E id \in 1..iterationCurrentId, updates \in SyncIterationUpdates :
       SyncStoreUpdateIteration(id, updates)

SpecStore == Init /\ [][NextStore]_vars

TypeOK ==
  /\ DOMAIN scripts = 1..(scriptId - 1)
  /\ DOMAIN scriptIterations = 1..(iterationId - 1)
  /\ DOMAIN tasks \subseteq DOMAIN scriptIterations
  /\ BagCardinality(reqs) <= MaxReqs
  /\ received \in 0..(IF MaxSyncRequests > MaxRequests THEN MaxSyncRequests
                       ELSE MaxRequests)

\* ============================================================== claims

IterationsOf(s) == IterationIdsOf(scriptIterations, s)
NumbersOf(s) == {scriptIterations[i].iterationNumber : i \in IterationsOf(s)}
InProgressOf(s) == {i \in IterationsOf(s) : scriptIterations[i].status = "in_progress"}
HighestNumber(s) ==
  IF IterationsOf(s) = {} THEN 0
  ELSE CHOOSE m \in NumbersOf(s) : \A n \in NumbersOf(s) : n <= m
NextRoute == "POST /api/scripts/:id/iterations"
PutRoute == "PUT /api/scripts/:id/iterations/:iterationId"
Answered == response.route # "none"

\* C1: when handlers run one after the other, the iteration numbers of every
\* script are exactly 1..k for the number k of its records, and k is at most
\* the script's requested iteration count.
C1_GaplessNumbers ==
  \A s \in DOMAIN scripts :
    /\ NumbersOf(s) = 1..Cardinality(IterationsOf(s))
    /\ Cardinality(IterationsOf(s)) <= scripts[s].iterations

\* a script that has all its requested iterations, one of them filled in by
\* its task and one edited by hand
C1_Witness ==
  \E s \in DOMAIN scripts :
    /\ Cardinality(IterationsOf(s)) = scripts[s].iterations
    /\ \E i \in IterationsOf(s) : scriptIterations[i].content = Draft(i)
    /\ \E i \in IterationsOf(s) : scriptIterations[i].content \in EditContents

\* C2: two start-next-iteration requests of one script that interleave at
\* their awaits never leave two Iteration records of the script with the same
\* iterationNumber.
C2_NoDuplicateNumbers ==
  \A i, j \in DOMAIN scriptIterations :
    (/\ i # j
     /\ scriptIterations[i].scriptId = scriptIterations[j].scriptId)
    => scriptIterations[i].iterationNumber # scriptIterations[j].iterationNumber

\* C3: a script never owns more Iteration records than its requested total
\* iteration count, interleaved start-next-iteration requests included.
C3_CountWithinTotal ==
  \A s \in DOMAIN scripts :
    Cardinality(IterationsOf(s)) <= scripts[s].iterations

\* C4: a start-next-iteration request on a script whose highest iteration
\* number equals its requested count is answered 400, creates no Iteration
\* record and starts no generation task.
C4_MaximumReachedRejects ==
  [][(/\ response'.route = NextRoute
      /\ response'.sid \in DOMAIN scripts
      /\ HighestNumber(response'.sid) = scripts[response'.sid].iterations)
     => (/\ response'.status = 400
         /\ scriptIterations' = scriptIterations
         /\ iterationId' = iterationId
         /\ tasks' = tasks)]_vars

\* the 400 has been sent for a script that has all its iterations
C4_Witness ==
  /\ response.route = NextRoute
  /\ response.status = 400
  /\ response.sid \in DOMAIN scripts
  /\ HighestNumber(response.sid) = scripts[response.sid].iterations

\* C5: starting the initial generation twice on one script never leaves two
\* Iteration records numbered 1 for it.
C5_SingleInitialIteration ==
  \A s \in DOMAIN syncScripts :
    Cardinality({i \in IterationIdsOf(iterations, s) :
                   iterations[i].iterationNumber = 1}) <= 1

\* C6: a script never has two Iterations with status in_progress.
C6_SingleInProgress ==
  \A s \in DOMAIN scripts : Cardinality(InProgressOf(s)) <= 1

\* C7: in every step an Iteration keeps its status or moves along
\* in_progress -> completed, in_progress -> failed or completed -> completed.
C7_LegalTransitions ==
  [][\A i \in DOMAIN scriptIterations :
       \/ scriptIterations'[i].status = scriptIterations[i].status
       \/ /\ scriptIterations[i].status = "in_progress"
          /\ scriptIterations'[i].status \in {"completed", "failed"}]_vars

\* C8: a manual edit of an existing iteration of the named script leaves the
\* stored iteration completed with the content of the request, whatever its
\* status was.
C8_EditCompletes ==
  [][\A sid \in DOMAIN scripts, iid \in DOMAIN scriptIterations, content \in EditContents :
       (/\ scriptIterations[iid].scriptId = sid
        /\ PutIteration(sid, iid, content))
       => (/\ scriptIterations'[iid].status = "completed"
           /\ scriptIterations'[iid].content = content
           /\ response'.status = 200
           /\ response'.body = scriptIterations'[iid])]_vars

\* the edit of an iteration that had failed has been answered
C8_Witness ==
  /\ response.route = PutRoute
  /\ response.status = 200
  /\ response.body.id \notin DOMAIN tasks
  /\ response.body.metrics = NullMetrics
  /\ scriptIterations[response.body.id].status = "completed"
  /\ scriptIterations[response.body.id].content \in EditContents

\* C9: the Iteration sent back with a 201 is in_progress with placeholder
\* content, and its generation task has not got any backend answer yet.
C9_PlaceholderReturned ==
  (Answered /\ response.status = 201) =>
    /\ response.body.status = "in_progress"
    /\ response.body.content \in {PlaceholderInitial, PlaceholderNext}
    /\ response.body.metrics = NullMetrics
    /\ response.body.id \in DOMAIN tasks
    /\ tasks[response.body.id].pc = "generate"

\* a 201 of the next-iteration route while the record is still as returned
C9_Witness ==
  /\ response.route = NextRoute
  /\ response.status = 201
  /\ scriptIterations[response.body.id] = response.body

\* C10: when every backend call returns or throws, every in_progress
\* Iteration becomes completed or failed; and an Iteration leaves in_progress
\* only in a step of its generation task or of a manual edit.
C10_EventuallySettled ==
  /\ \A i \in 1..MaxRequests :
       (i \in DOMAIN scriptIterations /\ scriptIterations[i].status = "in_progress")
         ~> (/\ i \in DOMAIN scriptIterations
             /\ scriptIterations[i].status \in {"completed", "failed"})
  /\ [][\A i \in DOMAIN scriptIterations :
          (/\ scriptIterations[i].status = "in_progress"
           /\ scriptIterations'[i].status # "in_progress")
          => \/ i \in DOMAIN tasks /\ i \notin DOMAIN tasks'
             \/ response'.route = PutRoute /\ response'.body.id = i]_vars

\* an iteration whose task has failed
C10_Witness ==
  \E i \in DOMAIN scriptIterations :
    /\ scriptIterations[i].status = "failed"
    /\ scriptIterations[i].content = ErrorContent
    /\ i \notin DOMAIN tasks

\* C11: when the backend call of a generation task throws, the step ends the
\* task, leaves exactly the task's Iteration failed with the fixed content
\* (its other fields as they were), changes no other Iteration and no Script,
\* sends no HTTP response and touches no request handler.
C11_TaskErrorContained ==
  [][\A id \in DOMAIN tasks :
       (tasks[id].pc = "generate" /\ id \notin DOMAIN tasks')
       => (/\ scriptIterations'[id] =
                [scriptIterations[id] EXCEPT !.content = ErrorContent,
                                             !.status = "failed"]
           /\ DOMAIN scriptIterations' = DOMAIN scriptIterations
           /\ \A j \in DOMAIN scriptIterations \ {id} :
                scriptIterations'[j] = scriptIterations[j]
           /\ scripts' = scripts
           /\ response' = NoResponse
           /\ reqs' = reqs)]_vars

\* the task of iteration 2 has failed next to the completed iteration 1
C11_Witness ==
  \E i, j \in DOMAIN scriptIterations :
    /\ scriptIterations[i].scriptId = scriptIterations[j].scriptId
    /\ scriptIterations[i].iterationNumber = 1
    /\ scriptIterations[i].status = "completed"
    /\ scriptIterations[i].content = Draft(i)
    /\ scriptIterations[j].iterationNumber = 2
    /\ scriptIterations[j].status = "failed"
    /\ scriptIterations[j].content = ErrorContent
    /\ j \notin DOMAIN tasks
    /\ response = NoResponse

CompletedOf(s) == {i \in IterationsOf(s) : scriptIterations[i].status = "completed"}

\* C12: a start-next-iteration request that is answered while its script has
\* no completed Iteration (iteration 1 still in_progress, or failed) is
\* rejected with a 400 and creates no Iteration record.
C12_NoCompletedRejects ==
  [][(/\ response'.route = NextRoute
      /\ response'.sid \in DOMAIN scripts
      /\ CompletedOf(response'.sid) = {})
     => (/\ response'.status = 400
         /\ scriptIterations' = scriptIterations
         /\ iterationId' = iterationId)]_vars

\* C13: an accepted manual edit changes only content and status of the
\* Iteration it names: its metrics, iterationNumber, scriptId, id and
\* createdAt stay, every other Iteration stays, every Script stays, and no
\* record is created.
C13_EditFrame ==
  [][(response'.route = PutRoute /\ response'.status = 200)
     => LET iid == response'.iid
        IN /\ DOMAIN scriptIterations' = DOMAIN scriptIterations
           /\ \A f \in {"metrics", "iterationNumber", "scriptId", "id", "createdAt"} :
                scriptIterations'[iid][f] = scriptIterations[iid][f]
           /\ DOMAIN scriptIterations'[iid] = DOMAIN scriptIterations[iid]
           /\ \A j \in DOMAIN scriptIterations \ {iid} :
                scriptIterations'[j] = scriptIterations[j]
           /\ scripts' = scripts
           /\ scriptId' = scriptId
           /\ iterationId' = iterationId]_vars

\* an edited second iteration that keeps the metrics its task had stored,
\* next to the first iteration as its task left it
C13_Witness ==
  /\ response.route = PutRoute
  /\ response.status = 200
  /\ scriptIterations[response.iid].content \in EditContents
  /\ scriptIterations[response.iid].iterationNumber = 2
  /\ scriptIterations[response.iid].metrics # NullMetrics
  /\ \E j \in IterationsOf(response.sid) :
       /\ j # response.iid
       /\ scriptIterations[j].content = Draft(j)

\* C14: a manual edit naming an iteration id that does not exist, or an
\* iteration of another script than the one named, is answered 404 and
\* changes nothing in the store.
C14_EditNotFound ==
  [][(/\ response'.route = PutRoute
      /\ \/ response'.iid \notin DOMAIN scriptIterations
         \/ scriptIterations[response'.iid].scriptId # response'.sid)
     => (/\ response'.status = 404
         /\ scripts' = scripts
         /\ scriptIterations' = scriptIterations
         /\ scriptId' = scriptId
         /\ iterationId' = iterationId)]_vars

\* the 404 for an existing script and an existing iteration of another script
C14_Witness ==
  /\ response.route = PutRoute
  /\ response.status = 404
  /\ response.sid \in DOMAIN scripts
  /\ response.iid \in DOMAIN scriptIterations
  /\ scriptIterations[response.iid].scriptId # response.sid

CarriesRedundancyReduction(metrics) ==
  metrics # NullMetrics /\ metrics.redundancyReduction # NoRedundancy

\* C15: an Iteration whose metrics carry a redundancyReduction has an
\* iterationNumber above 1; an Iteration numbered 1 never carries one.
C15_RedundancyOnlyAfterFirst ==
  \A i \in DOMAIN scriptIterations :
    CarriesRedundancyReduction(scriptIterations[i].metrics)
      => scriptIterations[i].iterationNumber > 1

\* a script whose iteration 1 has metrics without a redundancyReduction and
\* whose iteration 2 has metrics with one
C15_Witness ==
  \E i, j \in DOMAIN scriptIterations :
    /\ scriptIterations[i].scriptId = scriptIterations[j].scriptId
    /\ scriptIterations[i].iterationNumber = 1
    /\ scriptIterations[i].metrics # NullMetrics
    /\ ~CarriesRedundancyReduction(scriptIterations[i].metrics)
    /\ scriptIterations[j].iterationNumber = 2
    /\ CarriesRedundancyReduction(scriptIterations[j].metrics)

\* C16: every accepted start-next-iteration reports isComplete, true exactly
\* when the new iteration's number has reached the script's requested
\* iteration count, and no start-next-iteration is accepted on a script that
\* already has an iteration with that number (for which isComplete was true).
C16_IsCompleteReported ==
  [][(response'.route = NextRoute /\ response'.status = 201)
     => (/\ "isComplete" \in DOMAIN response'
         /\ response'.isComplete
              = (response'.body.iterationNumber >= scripts[response'.sid].iterations)
         /\ HighestNumber(response'.sid) < scripts[response'.sid].iterations)]_vars

\* C17: no operation changes the total iteration count of a script that
\* stays in the store, the script update endpoint included.
C17_TotalFixed ==
  [][\A s \in DOMAIN syncScripts \cap DOMAIN syncScripts' :
       syncScripts'[s].totalIterations = syncScripts[s].totalIterations]_vars

\* C18: the scriptId of every Iteration in the store is the id of a Script in
\* the store (deleting a Script removes its Iterations).
C18_OwnerPresent ==
  \A i \in DOMAIN iterations : iterations[i].scriptId \in DOMAIN syncScripts

ExportRoute == "POST /api/scripts/:id/export"

\* C19: an export of a script with a completed Iteration answers with the
\* content of a completed Iteration whose number no other completed Iteration
\* of the script exceeds, whatever in_progress or failed Iterations there
\* are; an export of a script with no completed Iteration answers 400 with no
\* document; and an export changes nothing in the store.
C19_ExportLatestCompleted ==
  [][(response'.route = ExportRoute /\ response'.sid \in DOMAIN scripts)
     => LET sid == response'.sid
        IN /\ scripts' = scripts
           /\ scriptIterations' = scriptIterations
           /\ scriptId' = scriptId
           /\ iterationId' = iterationId
           /\ tasks' = tasks
           /\ IF CompletedOf(sid) = {}
              THEN response'.status = 400 /\ response'.body = NoBody
              ELSE /\ response'.status = 200
                   /\ \E i \in CompletedOf(sid) :
                        /\ \A j \in CompletedOf(sid) :
                             scriptIterations[j].iterationNumber
                               <= scriptIterations[i].iterationNumber
                        /\ response'.body.id = i
                        /\ response'.body.content = scriptIterations[i].content]_vars

\* iteration 1 has been exported while iteration 2 of the script, not
\* completed, is in the store
C19_Witness ==
  /\ response.route = ExportRoute
  /\ response.status = 200
  /\ scriptIterations[response.body.id].iterationNumber = 1
  /\ \E j \in IterationsOf(response.sid) :
       /\ scriptIterations[j].iterationNumber = 2
       /\ scriptIterations[j].status # "completed"

\* the time spans of a text: the matches of the timestamp pattern
TimestampsOf(s) ==
  {SubSeq(s, p, TimestampEnd(s, p) - 1) :
     p \in {q \in 1..Len(s) : TimestampEnd(s, q) # 0}}

\* C20: in every format, a document exported with includeTimestamps=false
\* contains none of the time spans of the content, and a document exported
\* with includeTimestamps=true contains each of them, inside the timestamp
\* markup in the HTML formats and as it is in the others.
C20_TimestampsFollowSetting ==
  exportScriptOutput # NoDocument =>
    LET document == exportScriptOutput.document
        html == exportScriptOutput.format \in HtmlFormats
    IN \A m \in TimestampsOf(exportScriptInput) :
         IF exportScriptOutput.settings.includeTimestamps
         THEN Includes(document, IF html THEN TimestampOpen \o m \o SpanClose ELSE m)
         ELSE ~Includes(document, m)

\* previousIterations[previousIterations.length - 1]: what the backend is
\* given to refine
PreviousContent(prevContents) == prevContents[Len(prevContents)]

\* C21: the list a start-next-iteration request reads has a completed record
\* exactly when the script has a completed Iteration at that moment, and the
\* last completed record of the list carries the content of a completed
\* Iteration with the highest number; the task the request starts gets the
\* contents of the completed records of that list and of no other, so the
\* content of a failed or in_progress Iteration is never the previous content.
C21_PreviousIsLatestCompleted ==
  [][/\ \A r \in BagToSet(reqs') \ BagToSet(reqs) :
          r.pc = "generateNextIteration" =>
            LET completed == CompletedIterations(r.existingIterations)
            IN IF CompletedOf(r.sid) = {} THEN completed = <<>>
               ELSE /\ completed # <<>>
                    /\ \E i \in CompletedOf(r.sid) :
                         /\ \A j \in CompletedOf(r.sid) :
                              scriptIterations[j].iterationNumber
                                <= scriptIterations[i].iterationNumber
                         /\ completed[Len(completed)].content
                              = scriptIterations[i].content
     /\ \A id \in DOMAIN tasks' \ DOMAIN tasks :
          \E r \in BagToSet(reqs) :
            /\ reqs' = reqs (-) SetToBag({r})
            /\ IF r.kind = "create" THEN tasks'[id].prevContents = <<>>
               ELSE LET completed == CompletedIterations(r.existingIterations)
                    IN /\ tasks'[id].prevContents = ContentsOf(completed)
                       /\ completed # <<>> =>
                            /\ PreviousContent(tasks'[id].prevContents)
                                 = completed[Len(completed)].content
                            /\ PreviousContent(tasks'[id].prevContents)
                                 \notin {PlaceholderInitial, PlaceholderNext,
                                         ErrorContent}]_vars

\* the task of iteration 3 refines the draft of iteration 1, iteration 2
\* having failed
C21_Witness ==
  \E id \in DOMAIN tasks, i, j \in DOMAIN scriptIterations :
    /\ scriptIterations[id].iterationNumber = 3
    /\ scriptIterations[i].scriptId = scriptIterations[id].scriptId
    /\ scriptIterations[j].scriptId = scriptIterations[id].scriptId
    /\ scriptIterations[i].iterationNumber = 1
    /\ scriptIterations[j].iterationNumber = 2
    /\ scriptIterations[j].status = "failed"
    /\ tasks[id].prevContents # <<>>
    /\ PreviousContent(tasks[id].prevContents) = Draft(i)

\* the records of a list that have not failed
NotFailed(iterationList) == SelectSeq(iterationList, LAMBDA it : it.status # "failed")

\* C22: a start-next-iteration request counts the failed Iterations of its
\* script as absent: the Iteration it creates is numbered one more than the
\* records it has read that have not failed (a retry takes the number of the
\* failed Iteration), and it is rejected as over the maximum only when the
\* Iterations that have not failed already reach the requested count.
C22_FailedCountsAsAbsent ==
  [][\A r \in BagToSet(reqs) :
       (reqs' = reqs (-) SetToBag({r}) /\ response'.route = NextRoute)
       => /\ (r.pc = "generateNextIteration" /\ response'.status = 201)
               => response'.body.iterationNumber = Len(NotFailed(r.existingIterations)) + 1
          /\ (r.pc = "getScriptIterations" /\ response'.status = 400)
               => Len(NotFailed(getScriptIterations(scriptIterations, r.sid)))
                    >= r.script.iterations]_vars

\* the provider call failed or brought no usable answer
Failed(reply) == reply.kind \in {"error", "no content"}

\* C23: when the provider's answer to the generate call is an error or has
\* empty content, the run ends with the Iteration failed; and no run updates
\* the Iteration to completed with a placeholder string as its content.
C23_EmptyContentFails ==
  (generation.pc # "none" /\ Len(generation.replies) >= 1)
  => /\ (Failed(generation.replies[1]) \/ (generation.replies[1].kind = "text" /\ generation.replies[1].text = EmptyString))
        => (generation.pc = "done" /\ generation.update.status = "failed")
     /\ generation.update.status = "completed"
        => generation.update.content.source # "placeholder"

\* C24: a run that has got a draft always ends with the Iteration completed,
\* whatever the analyze and compare calls came back with; the metrics it
\* stores then hold a word count (at least 1) and an estimated duration, the
\* basic ones of the draft when the analysis failed, and a redundancy
\* reduction of 0 when the comparison failed.
C24_MetricsAlwaysPopulated ==
  generation.pc = "done"
  => /\ generation.update.status = "failed" <=> Len(generation.replies) = 1
     /\ generation.update.status = "completed"
        => /\ generation.update.metrics.wordCount \in Nat \ {0}
           /\ generation.update.metrics.estimatedDuration \in Nat
           /\ Failed(generation.replies[2])
              => /\ generation.update.metrics.wordCount
                      = SplitLength(generation.update.content)
                 /\ generation.update.metrics.estimatedDuration
                      = FallbackDuration(SplitLength(generation.update.content))
           /\ (Len(generation.replies) = 3 /\ Failed(generation.replies[3]))
              => generation.update.metrics.redundancyReduction = 0
           /\ Len(generation.replies) = 2
              => generation.update.metrics.redundancyReduction = NoRedundancy

\* C24 witness: an Iteration completed although both the analyze and the
\* compare call failed.
C24_Witness ==
  /\ generation.pc = "done"
  /\ generation.update.status = "completed"
  /\ Len(generation.replies) = 3
  /\ generation.replies[2] = ProviderError
  /\ generation.replies[3] = ProviderError

\* C25: when the analysis brought no duration of the provider's, the
\* estimated duration stored for a draft of w words is round(w / 150)
\* minutes, at least one minute, in seconds (so 180 for 450 words and never
\* less than 60).
C25_DurationInWholeMinutes ==
  (generation.pc \in {"compare", "done"} /\ Len(generation.replies) >= 2
     /\ (Failed(generation.replies[2]) \/ generation.replies[2].estimatedDuration = 0))
  => LET w == SplitLength(generation.content)
         minutes == IF Round(w, WordsPerMinute) >= 1
                    THEN Round(w, WordsPerMinute) ELSE 1
     IN generation.metrics.estimatedDuration = minutes * SecondsPerMinute

\* the identifier has 'claude' in it, in whatever case
NamesClaude(aiModel) == \E k \in 1..Len(aiModel) : aiModel[k] \in {"claude", "Claude"}

\* C26 as stated: all backend calls of a run go to one adapter, and for an
\* identifier that no client offers this adapter, like the service
\* getAIService returns, is OpenAI's.
C26_UnknownToOpenAI ==
  generation.pc # "none"
  => /\ \A j, k \in 1..Len(generation.calls) : generation.calls[j] = generation.calls[k]
     /\ generation.aiModel \notin KnownAiModels
        => /\ \A k \in 1..Len(generation.calls) : generation.calls[k] = "openai"
           /\ generation.service \in {"none", "openai"}

\* C26 amended: every backend call of a run goes to the adapter the
\* identifier alone decides: Anthropic's when the identifier has 'claude' in
\* it in whatever case, known or not, and OpenAI's otherwise; getAIService
\* gives Anthropic's service for its one Claude identifier and OpenAI's for
\* every other one; and the selection never fails a run: a run fails only
\* on the provider's answer to its generate call.
C26_AdapterByIdentifier ==
  generation.pc # "none"
  => /\ \A k \in 1..Len(generation.calls) :
          generation.calls[k] = IF NamesClaude(generation.aiModel)
                                THEN "anthropic" ELSE "openai"
     /\ generation.service # "none"
        => generation.service =
             IF generation.aiModel = <<"claude", "-3-7-sonnet-20250219">>
             THEN "anthropic" ELSE "openai"
     /\ (generation.pc = "done" /\ generation.update.status = "failed")
        => (Len(generation.replies) = 1 /\ Failed(generation.replies[1]))

\* C26 witness: a whole run, with its three backend calls, for an identifier
\* no client offers that has 'Claude' in it.
C26_Witness ==
  /\ generation.pc = "done"
  /\ generation.aiModel = <<"Claude", "-2">>
  /\ Len(generation.calls) = 3
  /\ generation.service # "none"

\* what an update method has to do to its collection and return: for a
\* known id, new is old with the fields of updates put onto that record,
\* every other field and every other record as they were
UpdateContract(old, new, call) ==
  IF call.id \in DOMAIN old
  THEN /\ DOMAIN new = DOMAIN old
       /\ \A i \in DOMAIN old \ {call.id} : new[i] = old[i]
       /\ DOMAIN new[call.id] = DOMAIN old[call.id]
       /\ \A f \in DOMAIN old[call.id] :
            new[call.id][f] = IF f \in DOMAIN call.updates THEN call.updates[f]
                              ELSE old[call.id][f]
       /\ call.result = new[call.id]
  ELSE new = old /\ call.result = Undefined

\* C27: an update method called with an id its collection holds replaces
\* exactly the provided fields of that record, keeps its other fields and
\* every other record, and returns the record; called with an id that is
\* not there it returns undefined, and in both cases nothing else of the
\* store changes (no record appears, the other collection and the id
\* counters stay).
C27_UpdateShallowMerge ==
  [][LET call == storeCall'
     IN /\ call.op = "updateScript"
           => /\ UpdateContract(scripts, scripts', call)
              /\ UNCHANGED <<scriptIterations, scriptId, iterationId>>
        /\ call.op = "updateScriptIteration"
           => /\ UpdateContract(scriptIterations, scriptIterations', call)
              /\ UNCHANGED <<scripts, scriptId, iterationId>>
        /\ call.op = "sync updateScript"
           => /\ UpdateContract(syncScripts, syncScripts', call)
              /\ UNCHANGED <<iterations, scriptCurrentId, iterationCurrentId>>
        /\ call.op = "sync updateIteration"
           => /\ UpdateContract(iterations, iterations', call)
              /\ UNCHANGED <<syncScripts, scriptCurrentId, iterationCurrentId>>]_vars

\* C27 witness: in a store that holds Iterations, an update of an Iteration
\* id that is not there has returned undefined.
C27_Witness ==
  /\ storeCall.op = "sync updateIteration"
  /\ storeCall.result = Undefined
  /\ DOMAIN iterations # {}
  /\ storeCall.updates # <<>>

\* C28: an Iteration that holds a manual edit's content keeps that content
\* and the status completed in every step that is not an accepted manual
\* edit of this Iteration; the completion or failure of its generation task
\* in particular leaves both as the edit set them.
C28_EditSurvivesTask ==
  [][\A i \in DOMAIN scriptIterations :
       (/\ scriptIterations[i].content \in EditContents
        /\ ~(response'.route = PutRoute /\ response'.status = 200 /\ response'.iid = i))
       => /\ scriptIterations'[i].content = scriptIterations[i].content
          /\ scriptIterations'[i].status = "completed"]_vars

\* C29: when a generate or improve request has been answered with its
\* Iteration, the script's currentIteration is the highest iterationNumber
\* among the Iteration records of the script, and its status is completed
\* exactly when currentIteration has reached totalIterations.
C29_CurrentIsHighest ==
  [][(/\ response'.route \in {"POST /api/scripts/:id/generate", "POST /api/scripts/:id/improve"}
      /\ response'.status = 200
      /\ response'.sid \in DOMAIN syncScripts')
     => LET script == syncScripts'[response'.sid]
            list == getIterationsByScriptId(iterations', response'.sid)
        IN /\ script.currentIteration = MaxIterationNumber(list)
           /\ script.status = "completed"
                <=> script.currentIteration >= script.totalIterations]_vars

\* C30: when the backend call of a generate or improve request fails, the
\* request is answered with an error, no Iteration record has been created,
\* and the script has the status and the currentIteration it had when the
\* request arrived.
C30_FailedRequestLeavesStore ==
  [][\A r \in BagToSet(reqs) :
       (/\ reqs' = reqs (-) SetToBag({r})
        /\ response'.route \in {"POST /api/scripts/:id/generate", "POST /api/scripts/:id/improve"}
        /\ response'.status # 200)
       => /\ response'.status = 500
          /\ iterations' = iterations
          /\ iterationCurrentId' = iterationCurrentId
          /\ DOMAIN syncScripts' = DOMAIN syncScripts
          /\ r.sid \in DOMAIN syncScripts'
             => /\ syncScripts'[r.sid].status = r.script.status
                /\ syncScripts'[r.sid].currentIteration = r.script.currentIteration]_vars

====
